---------------------------- MODULE Spec2Model ----------------------------
(***************************************************************************)
(* Model of src/app.py: the job-application tracker.                       *)
(*                                                                         *)
(* The state is the SQLite store (users, profiles, jobs, applications,     *)
(* settings), the Streamlit session (user_id, ai_assistant,                *)
(* search_results, confirm_delete) and what the last handler reported      *)
(* (ui), plus the FormAutomator (form), the last call made on an           *)
(* AIAssistant (gen), and the background scheduler threads with the jobs   *)
(* of the process-wide schedule (sched).                                   *)
(*                                                                         *)
(* A text is a sequence of tokens (words and separators); "" is << >>.     *)
(* A text read character by character (the match-score response) is a     *)
(* sequence of one-character strings.                                      *)
(***************************************************************************)
EXTENDS Naturals, Integers, Sequences, FiniteSets, TLC

VARIABLES
    users,          \* table users: set of rows
    profiles,       \* table profiles: sequence of rows, in rowid order
    jobs,           \* table jobs: set of rows
    applications,   \* table applications: set of rows
    settings,       \* table settings: set of rows, user_id is the key
    user_id,        \* st.session_state.user_id
    ai_assistant,   \* st.session_state.ai_assistant
    search_results, \* st.session_state.search_results
    confirm_delete, \* st.session_state.confirm_delete
    ui,             \* what the last handler returned and showed
    form,           \* the FormAutomator: its driver, the page, its last call
    gen,            \* the last call made on an AIAssistant and its outcome
    sched           \* the scheduler threads and the jobs of the shared schedule

vars == <<users, profiles, jobs, applications, settings,
          user_id, ai_assistant, search_results, confirm_delete, ui, form, gen,
          sched>>

store == <<users, profiles, jobs, applications, settings>>
session == <<user_id, ai_assistant, search_results, confirm_delete>>

---------------------------------------------------------------------------
(* Bounds of the model *)

\* longest response text given to calculate_job_match_score
MaxScoreLen == 4
\* longest question list given to generate_qa_answers
MaxQuestions == 2
\* rows the profiles table may hold
MaxProfiles == 2
\* rows the applications table may hold
MaxApplications == 2

---------------------------------------------------------------------------
(* Python values *)

None == "None"
NoText == << >>

Range(s) == {s[i] : i \in 1..Len(s)}

\* s[:n]
Take(s, n) == SubSeq(s, 1, IF n < Len(s) THEN n ELSE Len(s))

\* t in s, for texts
Contains(s, t) == \E i \in 1..(Len(s) + 1) :
                     /\ i + Len(t) - 1 <= Len(s)
                     /\ SubSeq(s, i, i + Len(t) - 1) = t

\* a normal return, or an exception leaving the block
Ret(v) == [raised |-> FALSE, value |-> v]
Raise(e) == [raised |-> TRUE, value |-> e]

\* str.strip(): leading and trailing white space removed
RECURSIVE LStrip(_)
LStrip(s) == IF s # << >> /\ Head(s) = " " THEN LStrip(Tail(s)) ELSE s

RECURSIVE RStrip(_)
RStrip(s) == IF s # << >> /\ s[Len(s)] = " "
             THEN RStrip(SubSeq(s, 1, Len(s) - 1)) ELSE s

Strip(s) == RStrip(LStrip(s))

\* str.split(','): the pieces between the "," tokens; always at least one piece
RECURSIVE SplitFrom(_, _, _)
SplitFrom(s, i, piece) ==
    IF i > Len(s) THEN <<piece>>
    ELSE IF s[i] = "," THEN <<piece>> \o SplitFrom(s, i + 1, << >>)
    ELSE SplitFrom(s, i + 1, Append(piece, s[i]))

Split(s) == SplitFrom(s, 1, << >>)

\* ', '.join(parts)
RECURSIVE Join(_)
Join(parts) ==
    IF parts = << >> THEN << >>
    ELSE IF Len(parts) = 1 THEN parts[1]
    ELSE parts[1] \o <<", ">> \o Join(Tail(parts))

---------------------------------------------------------------------------
(* Job and JobProfile objects *)

\* Job(...) as JobScraper.search_indeed_jobs builds its i-th sample job
IndeedJob(id, keywords, location, i) ==
    [id          |-> id,
     title       |-> <<"Sample">> \o keywords \o <<"Position", ToString(i)>>,
     company     |-> <<"Company", ToString(i)>>,
     location    |-> location,
     description |-> <<"Sample job description for">> \o keywords
                       \o <<"position requiring relevant skills and experience.">>,
     url         |-> <<"https://example.com/job/", ToString(i)>>,
     source      |-> "indeed"]

\* JobProfile(...) as apply_to_job builds it from a row of get_user_profiles
JobProfile(profile_data) ==
    [id               |-> profile_data.id,
     name             |-> profile_data.name,
     skills           |-> IF profile_data.skills # NoText
                          THEN Split(profile_data.skills) ELSE << >>,
     experience       |-> profile_data.experience,
     summary          |-> profile_data.summary,
     target_positions |-> IF profile_data.target_positions # NoText
                          THEN Split(profile_data.target_positions) ELSE << >>]

---------------------------------------------------------------------------
(* class AIAssistant *)

\* st.session_state.ai_assistant = None
NoAssistant == [is_none |-> TRUE]

\* AIAssistant(api_key): the client is None when openai.OpenAI(...) raises
AIAssistant(api_key, client_ok) == [api_key |-> api_key, client |-> client_ok]

\* what self.client.chat.completions.create(...) does in one call: it raises,
\* or answers with message.content None, or answers with a text
ServiceError == [kind |-> "error"]
ContentNone == [kind |-> "none"]
Content(text) == [kind |-> "text", text |-> text]

_fallback_cover_letter(job, profile) ==
    <<"Dear Hiring Manager,",
      "I am writing to express my strong interest in the">>
    \o job.title \o <<"position at">> \o job.company
    \o <<".", "With my background in">> \o profile.experience
    \o <<"and expertise in">> \o Join(Take(profile.skills, 3))
    \o <<", I am excited about the opportunity to contribute to your team.">>
    \o profile.summary
    \o <<"I am particularly drawn to this role because it aligns perfectly with my career goals.",
         "Thank you for your consideration.", "Sincerely,", "[Your Name]">>

\* the try block of generate_cover_letter
CoverLetterTry(client, job, profile, resp) ==
    IF ~client THEN Ret(_fallback_cover_letter(job, profile))
    ELSE IF resp.kind = "error" THEN Raise("APIError")
    ELSE IF resp.kind = "none" THEN Raise("AttributeError")
    ELSE Ret(Strip(resp.text))

\* generate_cover_letter whose except clause returns an empty letter
generate_cover_letter_EmptyOnError(client, job, profile, resp) ==
    LET r == CoverLetterTry(client, job, profile, resp)
    IN  IF r.raised THEN Ret(NoText) ELSE r

generate_cover_letter(client, job, profile, resp) ==
    LET r == CoverLetterTry(client, job, profile, resp)
    IN  IF r.raised THEN Ret(_fallback_cover_letter(job, profile)) ELSE r

EmptyDict == [q \in {} |-> NoText]

\* answers[question] = text
DictSet(answers, question, text) ==
    [q \in DOMAIN answers \cup {question} |->
        IF q = question THEN text ELSE answers[q]]

\* the loop of generate_qa_answers from question i on; answers is the local dict,
\* which keeps what was stored in it when a call raises
RECURSIVE QALoop(_, _, _, _)
QALoop(questions, resps, i, answers) ==
    IF i > Len(questions)
    THEN [raised |-> FALSE, value |-> None, answers |-> answers]
    ELSE IF resps[i].kind = "error"
    THEN [raised |-> TRUE, value |-> "APIError", answers |-> answers]
    ELSE IF resps[i].kind = "none"
    THEN [raised |-> TRUE, value |-> "AttributeError", answers |-> answers]
    ELSE QALoop(questions, resps, i + 1,
                DictSet(answers, questions[i], Strip(resps[i].text)))

\* the try block of generate_qa_answers
QATry(client, questions, resps) ==
    IF ~client THEN [raised |-> FALSE, value |-> "return", answers |-> EmptyDict]
    ELSE QALoop(questions, resps, 1, EmptyDict)

\* generate_qa_answers without its except clause
generate_qa_answers_NoExcept(client, questions, resps) ==
    LET r == QATry(client, questions, resps)
    IN  IF r.raised THEN Raise(r.value) ELSE Ret(r.answers)

\* except Exception: log; then return answers
generate_qa_answers(client, questions, resps) ==
    Ret(QATry(client, questions, resps).answers)

---------------------------------------------------------------------------
(* calculate_job_match_score: the regular expression and float() *)

Digits == {"0", "1", "2", "3", "4", "5", "6", "7", "8", "9"}

DigitValue(c) ==
    CASE c = "0" -> 0 [] c = "1" -> 1 [] c = "2" -> 2 [] c = "3" -> 3
      [] c = "4" -> 4 [] c = "5" -> 5 [] c = "6" -> 6 [] c = "7" -> 7
      [] c = "8" -> 8 [] c = "9" -> 9

RECURSIVE Pow10(_)
Pow10(n) == IF n = 0 THEN 1 ELSE 10 * Pow10(n - 1)

\* A float is held as the integer Scale * value: every numeral the model reads
\* has fewer than MaxScoreLen + 1 fraction digits.
Scale == Pow10(MaxScoreLen + 1)

\* 0.5
Half == Scale \div 2

\* how many digits s holds from position i on, before a non-digit
RECURSIVE DigitRun(_, _)
DigitRun(s, i) ==
    IF i <= Len(s) /\ s[i] \in Digits THEN 1 + DigitRun(s, i + 1) ELSE 0

\* MatchAt with the pattern's second alternative written \d instead of [01]
MatchAt_AnyDigit(s, i) ==
    IF s[i] = "0" /\ i + 2 <= Len(s) /\ s[i + 1] = "." /\ s[i + 2] \in Digits
    THEN SubSeq(s, i, i + 1 + DigitRun(s, i + 2))
    ELSE IF s[i] = "." /\ i + 1 <= Len(s) /\ s[i + 1] \in Digits
    THEN SubSeq(s, i, i + DigitRun(s, i + 1))
    ELSE IF s[i] \in Digits THEN <<s[i]>>
    ELSE << >>

\* the match of r'0?\.\d+|[01]' that starts at position i of s, << >> if none
MatchAt(s, i) ==
    IF s[i] = "0" /\ i + 2 <= Len(s) /\ s[i + 1] = "." /\ s[i + 2] \in Digits
    THEN SubSeq(s, i, i + 1 + DigitRun(s, i + 2))
    ELSE IF s[i] = "." /\ i + 1 <= Len(s) /\ s[i + 1] \in Digits
    THEN SubSeq(s, i, i + DigitRun(s, i + 1))
    ELSE IF s[i] \in {"0", "1"} THEN <<s[i]>>
    ELSE << >>

\* re.findall(r'0?\.\d+|[01]', s): the matches from left to right, not overlapping
RECURSIVE FindAllFrom(_, _)
FindAllFrom(s, i) ==
    IF i > Len(s) THEN << >>
    ELSE LET m == MatchAt(s, i)
         IN  IF m = << >> THEN FindAllFrom(s, i + 1)
             ELSE <<m>> \o FindAllFrom(s, i + Len(m))

findall(s) == FindAllFrom(s, 1)

\* the digits ds read as an integer
RECURSIVE IntValue(_)
IntValue(ds) ==
    IF ds = << >> THEN 0
    ELSE 10 * IntValue(SubSeq(ds, 1, Len(ds) - 1)) + DigitValue(ds[Len(ds)])

\* the digits ds read as a fraction 0.ds, times Scale
RECURSIVE FracValue(_)
FracValue(ds) ==
    IF ds = << >> THEN 0
    ELSE (DigitValue(Head(ds)) * Scale + FracValue(Tail(ds))) \div 10

\* where the "." of s is; Len(s) + 1 when it has none
RECURSIVE DotAt(_, _)
DotAt(s, i) == IF i > Len(s) \/ s[i] = "." THEN i ELSE DotAt(s, i + 1)

\* s is digits, with at most one "." among them, and at least one digit
IsNumeral(s) ==
    LET d == DotAt(s, 1)
    IN  /\ \A i \in 1..Len(s) : i # d => s[i] \in Digits
        /\ \E i \in 1..Len(s) : s[i] \in Digits

\* float(s) of an unsigned numeral, times Scale
float(s) ==
    LET d == DotAt(s, 1)
    IN  IntValue(SubSeq(s, 1, d - 1)) * Scale + FracValue(SubSeq(s, d + 1, Len(s)))

\* the try block of calculate_job_match_score
MatchScoreTry(client, resp) ==
    IF ~client THEN Ret(Half)
    ELSE IF resp.kind = "error" THEN Raise("APIError")
    ELSE IF resp.kind = "none" THEN Raise("AttributeError")
    ELSE LET found == findall(Strip(resp.text))
         IN  IF found = << >> THEN Raise("IndexError") ELSE Ret(float(found[1]))

calculate_job_match_score(client, resp) ==
    LET r == MatchScoreTry(client, resp)
    IN  IF r.raised THEN Ret(Half) ELSE r

---------------------------------------------------------------------------
(* Initial state: a new database file and a new session *)

(* class FormAutomator *)

\* elements of a page
MaxElements == 2

\* the candidate identifiers of fill_application_form, per logical field
common_fields ==
    [name         |-> <<"name", "full_name", "applicant_name">>,
     email        |-> <<"email", "email_address", "contact_email">>,
     phone        |-> <<"phone", "phone_number", "mobile">>,
     cover_letter |-> <<"cover_letter", "message", "additional_info">>]

\* FormAutomator(): no driver, no page loaded, no call made; served is the page
\* the job URL answers with.  sessions counts the browsers started and not
\* quit, quit tells that the browser self.driver refers to was quit.
NoForm ==
    [driver |-> FALSE, sessions |-> 0, quit |-> FALSE, served |-> << >>,
     page |-> << >>, last |-> [op |-> "init"]]

\* setup_driver(): webdriver.Chrome(...) starts a browser and self.driver refers
\* to it, or raises and the method returns False
setup_driver(f, setup_ok) ==
    IF setup_ok
    THEN [ret |-> TRUE, driver |-> TRUE, sessions |-> f.sessions + 1, quit |-> FALSE]
    ELSE [ret |-> FALSE, driver |-> f.driver, sessions |-> f.sessions, quit |-> f.quit]

\* close_driver(): quits the browser self.driver refers to; self.driver keeps
\* referring to it
close_driver(f) ==
    IF f.driver
    THEN [driver |-> TRUE, sessions |-> IF f.quit THEN f.sessions ELSE f.sessions - 1,
          quit |-> TRUE]
    ELSE [driver |-> FALSE, sessions |-> f.sessions, quit |-> f.quit]

\* find_element(By.NAME | By.ID, selector): the first element of the page, in
\* document order, whose attribute is the selector; 0 for NoSuchElementException
FindBy(page, attr, selector) ==
    LET hits == {i \in 1..Len(page) : page[i][attr] = selector}
    IN  IF hits = {} THEN 0 ELSE CHOOSE i \in hits : \A k \in hits : i <= k

\* element.clear(); element.send_keys(value)
SendKeys(page, i, value) == [page EXCEPT ![i].value = value]

\* the loop of _fill_field_by_selectors from candidate c on, n lookups made so
\* far; the lookup with number timeout_at raises TimeoutException, which the
\* except clauses do not catch
RECURSIVE FillFrom(_, _, _, _, _, _)
FillFrom(selectors, c, value, page, n, timeout_at) ==
    IF c > Len(selectors) THEN [raised |-> FALSE, page |-> page]
    ELSE IF n + 1 = timeout_at THEN [raised |-> TRUE, page |-> page]
    ELSE LET by_name == FindBy(page, "name", selectors[c])
         IN  IF by_name # 0
             THEN [raised |-> FALSE, page |-> SendKeys(page, by_name, value)]
             ELSE IF n + 2 = timeout_at THEN [raised |-> TRUE, page |-> page]
             ELSE LET by_id == FindBy(page, "id", selectors[c])
                  IN  IF by_id # 0
                      THEN [raised |-> FALSE, page |-> SendKeys(page, by_id, value)]
                      ELSE FillFrom(selectors, c + 1, value, page, n + 2, timeout_at)

\* the loop without its return statements: every candidate that matches is filled
RECURSIVE FillAll(_, _, _, _)
FillAll(selectors, c, value, page) ==
    IF c > Len(selectors) THEN [raised |-> FALSE, page |-> page]
    ELSE LET by_name == FindBy(page, "name", selectors[c])
             by_id == FindBy(page, "id", selectors[c])
             hit == IF by_name # 0 THEN by_name ELSE by_id
         IN  FillAll(selectors, c + 1, value,
                     IF hit # 0 THEN SendKeys(page, hit, value) ELSE page)

_fill_field_by_selectors_NoReturn(selectors, value, page, timeout_at) ==
    FillAll(selectors, 1, value, page)

_fill_field_by_selectors(selectors, value, page, timeout_at) ==
    FillFrom(selectors, 1, value, page, 0, timeout_at)

\* the four fills of fill_application_form, from field number f on; the first
\* lookup for field number timeout_field times out (0: none does)
FormFields == <<"name", "email", "phone", "cover_letter">>

FormValue(field, cover_letter) ==
    IF field = "name" THEN "John Doe"
    ELSE IF field = "email" THEN "john.doe@email.com"
    ELSE IF field = "phone" THEN "+1234567890"
    ELSE cover_letter

RECURSIVE FillFields(_, _, _, _)
FillFields(f, page, cover_letter, timeout_field) ==
    IF f > Len(FormFields) THEN [raised |-> FALSE, page |-> page]
    ELSE LET r == _fill_field_by_selectors(common_fields[FormFields[f]],
                                           FormValue(FormFields[f], cover_letter), page,
                                           IF f = timeout_field THEN 1 ELSE 0)
         IN  IF r.raised THEN r
             ELSE FillFields(f + 1, r.page, cover_letter, timeout_field)

\* fill_application_form(job_url, profile, cover_letter, custom_answers) on an
\* automator f whose browser would show the page `loaded`: setup_driver() may
\* fail, driver.get(job_url) may raise, a lookup may time out.  A JobProfile has
\* no resume_path, so the loop over the file inputs sends nothing.  A browser
\* that was quit answers no command: driver.get raises.  No path calls
\* close_driver.
fill_application_form(f, loaded, cover_letter, setup_ok, get_ok, timeout_field) ==
    LET s == IF f.driver
             THEN [ret |-> TRUE, driver |-> TRUE, sessions |-> f.sessions, quit |-> f.quit]
             ELSE setup_driver(f, setup_ok)
        held == [driver |-> s.driver, sessions |-> s.sessions, quit |-> s.quit]
    IN  IF ~s.ret
        THEN [ret |-> FALSE, held |-> held, page |-> f.page]
        ELSE IF ~get_ok \/ s.quit
        THEN [ret |-> FALSE, held |-> held, page |-> f.page]
        ELSE LET r == FillFields(1, loaded, cover_letter, timeout_field)
             IN  [ret |-> ~r.raised, held |-> held, page |-> r.page]

---------------------------------------------------------------------------
(* The process before the entry point ran: no scheduler thread, and no job *)
(* on the schedule of the schedule module                                  *)
NoSchedule == [threads |-> << >>, jobs |-> << >>]

NoUser == None

Init ==
    /\ users = {}
    /\ profiles = << >>
    /\ jobs = {}
    /\ applications = {}
    /\ settings = {}
    /\ user_id = NoUser
    /\ ai_assistant = NoAssistant
    /\ search_results = << >>
    /\ confirm_delete = FALSE
    /\ ui = [op |-> "init", args |-> << >>, ret |-> None, msgs |-> {}]
    /\ form = NoForm
    /\ sched = NoSchedule
    /\ gen = [op |-> "init", done |-> FALSE]

---------------------------------------------------------------------------
(* The AIAssistant alone: one call of one of its three methods, on inputs  *)
(* drawn from small sets                                                   *)

ApiKeys == {"sk-A"}

\* the characters of a match-score response
ScoreAlphabet == {"0", "1", "5", ".", "-", "x", " "}

RECURSIVE SeqsUpTo(_, _)
SeqsUpTo(S, n) ==
    IF n = 0 THEN {<< >>}
    ELSE LET shorter == SeqsUpTo(S, n - 1)
         IN  shorter \cup {Append(t, x) : t \in shorter, x \in S}

SeqsOfLen(S, n) == {t \in SeqsUpTo(S, n) : Len(t) = n}

ScoreResponses ==
    {ServiceError, ContentNone} \cup {Content(t) : t \in SeqsUpTo(ScoreAlphabet, MaxScoreLen)}

LetterResponses ==
    {ServiceError, ContentNone, Content(<<" ", "Dear", "team,", "hire", "me.", " ">>)}

Questions == {<<"Why", "us?">>, <<"Salary?">>}

QAResponses == {ServiceError, ContentNone, Content(<<"Because", "I", "fit.">>)}

AIJobs == {IndeedJob("j1", <<"Backend">>, <<"Remote">>, 1),
           IndeedJob("j2", <<"Backend">>, <<"Remote">>, 2)}

AIProfileRows ==
    {[id |-> "p1", name |-> <<"Dev">>, skills |-> sk,
      experience |-> <<"5", "years">>, summary |-> <<"Builder.">>,
      target_positions |-> <<"Engineer">>] :
        sk \in {NoText, <<"Python", ",", "SQL">>,
                <<"Python", ",", "SQL", ",", "Go", ",", "Rust">>}}

\* the calls that can be asked of an AIAssistant
CoverLetterRequests ==
    {[op |-> "generate_cover_letter", done |-> FALSE,
      job |-> j, profile |-> JobProfile(p), resp |-> r] :
        j \in AIJobs, p \in AIProfileRows, r \in LetterResponses}

QARequests ==
    UNION {{[op |-> "generate_qa_answers", done |-> FALSE,
             questions |-> qs, resps |-> rs] :
               qs \in SeqsOfLen(Questions, n), rs \in SeqsOfLen(QAResponses, n)} :
           n \in 0..MaxQuestions}

MatchScoreRequests ==
    {[op |-> "calculate_job_match_score", done |-> FALSE, resp |-> r] :
        r \in ScoreResponses}

\* an assistant was constructed, with a client or without, and one call is asked
InitAI ==
    /\ users = {}
    /\ profiles = << >>
    /\ jobs = {}
    /\ applications = {}
    /\ settings = {}
    /\ user_id = NoUser
    /\ search_results = << >>
    /\ confirm_delete = FALSE
    /\ ui = [op |-> "init", args |-> << >>, ret |-> None, msgs |-> {}]
    /\ form = NoForm
    /\ sched = NoSchedule
    /\ ai_assistant \in {AIAssistant(k, ok) : k \in ApiKeys, ok \in BOOLEAN}
    /\ gen \in CoverLetterRequests \cup QARequests \cup MatchScoreRequests

CallCoverLetter ==
    /\ gen.op = "generate_cover_letter" /\ ~gen.done
    /\ gen' = [op |-> gen.op, done |-> TRUE, client |-> ai_assistant.client,
               job |-> gen.job, profile |-> gen.profile, resp |-> gen.resp,
               result |-> generate_cover_letter(ai_assistant.client, gen.job,
                                                gen.profile, gen.resp)]
    /\ UNCHANGED <<store, session, ui, form, sched>>

CallQAAnswers ==
    /\ gen.op = "generate_qa_answers" /\ ~gen.done
    /\ gen' = [op |-> gen.op, done |-> TRUE, client |-> ai_assistant.client,
               questions |-> gen.questions, resps |-> gen.resps,
               result |-> generate_qa_answers(ai_assistant.client,
                                              gen.questions, gen.resps)]
    /\ UNCHANGED <<store, session, ui, form, sched>>

CallMatchScore ==
    /\ gen.op = "calculate_job_match_score" /\ ~gen.done
    /\ gen' = [op |-> gen.op, done |-> TRUE, client |-> ai_assistant.client,
               resp |-> gen.resp,
               result |-> calculate_job_match_score(ai_assistant.client, gen.resp)]
    /\ UNCHANGED <<store, session, ui, form, sched>>

NextAI == CallCoverLetter \/ CallQAAnswers \/ CallMatchScore

SpecAI == InitAI /\ [][NextAI]_vars

---------------------------------------------------------------------------
(* Claims about the AIAssistant, under SpecAI *)

\* the text is one number, and the number is in [0, 1]
IsNumberIn01(t) ==
    \/ IsNumeral(t) /\ float(t) <= Scale
    \/ t # << >> /\ Head(t) = "-" /\ IsNumeral(Tail(t)) /\ float(Tail(t)) = 0

IsScoreCall == gen.op = "calculate_job_match_score" /\ gen.done
IsQACall == gen.op = "generate_qa_answers" /\ gen.done
IsLetterCall == gen.op = "generate_cover_letter" /\ gen.done

\* C3: calculate_job_match_score returns normally, with a value in [0.0, 1.0],
\* whatever the client and the service do: client missing, service error, no
\* content, and every response text.
C3_ScoreInRange ==
    IsScoreCall => /\ ~gen.result.raised
                   /\ gen.result.value \in 0..Scale

\* C3 witness: a response holding a number out of range was scored, and neither
\* as the default nor out of range.
C3_Witness ==
    /\ IsScoreCall /\ gen.client /\ gen.resp.kind = "text"
    /\ IsNumeral(Strip(gen.resp.text)) /\ float(Strip(gen.resp.text)) > Scale
    /\ gen.result.value # Half

\* C4: a response text that is not one number inside [0, 1] gives exactly the
\* default 0.5.
C4_MalformedGivesDefault ==
    (IsScoreCall /\ gen.client /\ gen.resp.kind = "text"
       /\ ~IsNumberIn01(Strip(gen.resp.text)))
    => gen.result = Ret(Half)

\* C5: generate_qa_answers returns normally; the keys of its dict are among the
\* questions asked; and the dict is empty when the client is missing or every
\* call fails.
C5_QASubsetNoRaise ==
    IsQACall =>
        /\ ~gen.result.raised
        /\ DOMAIN gen.result.value \subseteq Range(gen.questions)
        /\ (\/ ~gen.client
            \/ \A i \in 1..Len(gen.resps) : gen.resps[i].kind # "text")
           => DOMAIN gen.result.value = {}

\* C5 witness: several questions were asked of a client whose every call failed,
\* and the dict came back empty.
C5_Witness ==
    /\ IsQACall /\ gen.client /\ Len(gen.questions) >= 2
    /\ \A i \in 1..Len(gen.resps) : gen.resps[i].kind = "error"
    /\ ~gen.result.raised /\ DOMAIN gen.result.value = {}

\* C6: every question whose own call succeeds is answered in the dict, also
\* when the call for another question failed.
C6_QAIndependent ==
    (IsQACall /\ gen.client) =>
        \A i \in 1..Len(gen.questions) :
            gen.resps[i].kind = "text" => gen.questions[i] \in DOMAIN gen.result.value

\* C7: with the client missing or the service call failing, generate_cover_letter
\* returns normally and returns the fallback text, which is a function of the job
\* and the profile alone.
C7_FallbackDeterministic ==
    (IsLetterCall /\ (~gen.client \/ gen.resp.kind \in {"error", "none"}))
    => gen.result = Ret(_fallback_cover_letter(gen.job, gen.profile))

\* C7 witness: the service failed under a client, and the letter returned is the
\* template with the job's title, the company and the first three skills.
C7_Witness ==
    /\ IsLetterCall /\ gen.client /\ gen.resp.kind = "error"
    /\ Len(gen.profile.skills) > 3
    /\ Contains(gen.result.value, gen.job.title)
    /\ Contains(gen.result.value, gen.job.company)
    /\ Contains(gen.result.value, <<"Python", ", ", "SQL", ", ", "Go">>)
    /\ ~Contains(gen.result.value, <<"Rust">>)

---------------------------------------------------------------------------
(* class DatabaseManager: the tables *)

\* uuid.uuid4(): an id no row holds and no row refers to; the model numbers them
FreshIndex(prefix, n, used) ==
    LET free == {i \in 1..n : (prefix \o ToString(i)) \notin used}
    IN  CHOOSE i \in free : \A k \in free : i <= k

HasFresh(prefix, n, used) == \E i \in 1..n : (prefix \o ToString(i)) \notin used

uuid4(prefix, n, used) == prefix \o ToString(FreshIndex(prefix, n, used))

\* SQL NULL
NULL == "NULL"

\* json.dumps(d) and json.loads(text)
dumps(d) == [json |-> d]
loads(text) == text.json

\* d.get(key, default)
Get(d, key, default) == IF key \in DOMAIN d THEN d[key] ELSE default

\* d.update(other)
Update(d, other) ==
    [k \in DOMAIN d \cup DOMAIN other |-> IF k \in DOMAIN other THEN other[k] ELSE d[k]]

\* {}
EmptySettings == << >>

---------------------------------------------------------------------------
(* class AuthManager *)

\* hashlib.sha256(password.encode()).hexdigest(): the model keeps the digest
\* apart from the password and takes two passwords to have two digests
hash_password(password) == [sha256 |-> password]

UserIdsUsed ==
    {u.id : u \in users} \cup {profiles[i].user_id : i \in 1..Len(profiles)}
    \cup {a.user_id : a \in applications} \cup {s.user_id : s \in settings}

\* SELECT id FROM users WHERE username = ? AND password_hash = ?; result[0][0]
\* authenticate_user with a WHERE clause on the username alone
authenticate_user_NameOnly(username, password, db_ok) ==
    LET result == {u \in users : u.username = username}
    IN  IF db_ok /\ result # {} THEN (CHOOSE u \in result : TRUE).id ELSE None

authenticate_user(username, password, db_ok) ==
    LET result == {u \in users : /\ u.username = username
                                 /\ u.password_hash = hash_password(password)}
    IN  IF db_ok /\ result # {} THEN (CHOOSE u \in result : TRUE).id ELSE None

---------------------------------------------------------------------------
(* The login page: show_auth_page *)

UserNames == {"alice", "bob"}

\* every handler leaves in ui its name, its arguments, what it returned and the
\* messages it showed (st.success, st.error, st.warning)
Shown(op, args, ret, msgs) == [op |-> op, args |-> args, ret |-> ret, msgs |-> msgs]

NoArgs == << >>

Bool(b) == IF b THEN "True" ELSE "False"

\* the Register button
Register(new_username, new_email, new_password, confirm_password, db_ok) ==
    /\ user_id = NoUser
    /\ HasFresh("u", Cardinality(UserNames), UserIdsUsed)
    /\ LET id == uuid4("u", Cardinality(UserNames), UserIdsUsed)
           row == [id |-> id, username |-> new_username,
                   password_hash |-> hash_password(new_password),
                   email |-> new_email]
           valid == new_password = confirm_password /\ Len(new_password) >= 6
           \* username is UNIQUE
           inserted == /\ valid /\ db_ok
                       /\ \A u \in users : u.username # new_username
       IN  /\ users' = IF inserted THEN users \cup {row} ELSE users
           /\ ui' = Shown("register", NoArgs, Bool(inserted),
                          IF inserted THEN {"success"} ELSE {"error"})
    /\ UNCHANGED <<profiles, jobs, applications, settings, session, gen, form, sched>>

\* the Login button
Login(username, password, db_ok) ==
    /\ user_id = NoUser
    /\ LET id == authenticate_user(username, password, db_ok)
       IN  /\ user_id' = id
           /\ ui' = Shown("login", [username |-> username, password |-> password], id,
                          IF id # None THEN {"success"} ELSE {"error"})
    /\ UNCHANGED <<store, ai_assistant, search_results, confirm_delete, gen, form, sched>>

\* the Logout button of show_main_app
Logout ==
    /\ user_id # NoUser
    /\ user_id' = NoUser
    /\ ui' = Shown("logout", NoArgs, None, {})
    /\ UNCHANGED <<store, ai_assistant, search_results, confirm_delete, gen, form, sched>>

---------------------------------------------------------------------------
(* Profiles *)

ProfileIdsUsed ==
    {profiles[i].id : i \in 1..Len(profiles)} \cup {a.profile_id : a \in applications}

\* the Save Profile button of show_profile_form, which always makes a new profile
SaveProfile(name, skills, experience, summary, target_positions, db_ok) ==
    /\ user_id # NoUser
    /\ LET valid == name # "" /\ skills # NoText
       IN  /\ valid => HasFresh("p", MaxProfiles, ProfileIdsUsed)
           /\ profiles' =
                 IF valid /\ db_ok
                 THEN Append(profiles,
                        [id |-> uuid4("p", MaxProfiles, ProfileIdsUsed),
                         user_id |-> user_id, name |-> name, skills |-> skills,
                         experience |-> experience, summary |-> summary,
                         target_positions |-> target_positions])
                 ELSE profiles
           /\ ui' = IF valid
                    THEN Shown("show_profile_form", NoArgs, Bool(db_ok),
                               IF db_ok THEN {"success"} ELSE {"error"})
                    ELSE Shown("show_profile_form", NoArgs, None, {})
    /\ UNCHANGED <<users, jobs, applications, settings, session, gen, form, sched>>

\* get_user_profiles without its WHERE clause
get_user_profiles_AllUsers(uid, db_ok) ==
    IF db_ok
    THEN [i \in 1..Len(profiles) |->
            [id |-> profiles[i].id, name |-> profiles[i].name,
             skills |-> profiles[i].skills, experience |-> profiles[i].experience,
             summary |-> profiles[i].summary,
             target_positions |-> profiles[i].target_positions]]
    ELSE << >>

\* SELECT id, name, ... FROM profiles WHERE user_id = ?, as a list of dicts
get_user_profiles(uid, db_ok) ==
    LET Mine(row) == row.user_id = uid
        result == SelectSeq(profiles, Mine)
    IN  IF db_ok
        THEN [i \in 1..Len(result) |->
                [id |-> result[i].id, name |-> result[i].name,
                 skills |-> result[i].skills, experience |-> result[i].experience,
                 summary |-> result[i].summary,
                 target_positions |-> result[i].target_positions]]
        ELSE << >>

---------------------------------------------------------------------------
(* Job search *)

\* job ids the model may hand out
MaxJobs == 2

JobIdsUsed ==
    {j.id : j \in jobs} \cup {search_results[i].id : i \in 1..Len(search_results)}
    \cup {a.job_id : a \in applications}

\* n fresh job ids, in the order the jobs are built
RECURSIVE FreshJobIds(_, _)
FreshJobIds(n, used) ==
    IF n = 0 THEN << >>
    ELSE LET id == uuid4("j", MaxJobs, used)
         IN  <<id>> \o FreshJobIds(n - 1, used \cup {id})

FreeJobIds == Cardinality({i \in 1..MaxJobs : ("j" \o ToString(i)) \notin JobIdsUsed})

Min(a, b) == IF a < b THEN a ELSE b

\* search_indeed_jobs(keywords, location, limit)
search_indeed_jobs(keywords, location, limit, ids) ==
    [i \in 1..Min(limit, 5) |-> IndeedJob(ids[i], keywords, location, i)]

\* the Search Jobs button with the default source, Indeed; oks[i] tells whether
\* the INSERT OR REPLACE of the i-th job went through
SearchJobs(keywords, location, max_results, oks) ==
    /\ user_id # NoUser
    /\ keywords # NoText
    /\ LET n == Min(max_results \div 2, 5)
       IN  /\ Len(oks) = n
           /\ FreeJobIds >= n
           /\ LET found == search_indeed_jobs(keywords, location, max_results \div 2,
                                              FreshJobIds(n, JobIdsUsed))
              IN  /\ jobs' = jobs \cup {found[i] : i \in {k \in 1..n : oks[k]}}
                  /\ search_results' = found
                  /\ ui' = Shown("show_job_search_page", NoArgs, None, {"success"})
    /\ UNCHANGED <<users, profiles, applications, settings, user_id, ai_assistant,
                   confirm_delete, gen, form, sched>>

---------------------------------------------------------------------------
(* Settings *)

\* SELECT ... FROM settings WHERE user_id = ?, as a dict; {} without a row or
\* when the read fails
get_user_settings(uid, db_ok) ==
    LET result == {r \in settings : r.user_id = uid}
    IN  IF db_ok /\ result # {}
        THEN LET row == CHOOSE r \in result : TRUE
             IN  [openai_api_key |->
                      IF row.openai_api_key # NULL THEN row.openai_api_key ELSE "",
                  email_settings |-> loads(row.email_settings),
                  automation_settings |-> loads(row.automation_settings),
                  notification_settings |-> loads(row.notification_settings)]
        ELSE EmptySettings

\* the row save_user_settings(new) writes with INSERT OR REPLACE
SettingsRow(uid, new, read_ok) ==
    LET current_settings == Update(get_user_settings(uid, read_ok), new)
    IN  [user_id |-> uid,
         openai_api_key |-> Get(current_settings, "openai_api_key", ""),
         email_settings |-> dumps(Get(current_settings, "email_settings", EmptySettings)),
         automation_settings |->
             dumps(Get(current_settings, "automation_settings", EmptySettings)),
         notification_settings |->
             dumps(Get(current_settings, "notification_settings", EmptySettings))]

\* the settings table after save_user_settings(new)
save_user_settings(uid, new, read_ok, write_ok) ==
    IF write_ok
    THEN {r \in settings : r.user_id # uid} \cup {SettingsRow(uid, new, read_ok)}
    ELSE settings

\* the Save Email Settings button
SaveEmailSettings(from_email, email_password, smtp_server, enabled, read_ok, write_ok) ==
    /\ user_id # NoUser
    /\ LET email_config == [from_email |-> from_email, password |-> email_password,
                            smtp_server |-> smtp_server,
                            enabled |-> enabled]
       IN  settings' = save_user_settings(user_id, [email_settings |-> email_config],
                                          read_ok, write_ok)
    /\ ui' = Shown("save_user_settings",
                   [email_settings |-> [from_email |-> from_email,
                                        password |-> email_password,
                                        smtp_server |-> smtp_server,
                                        enabled |-> enabled]],
                   Bool(write_ok), {"success"})
    /\ UNCHANGED <<users, profiles, jobs, applications, session, gen, form, sched>>

\* the Test AI Connection button
TestAIConnection(openai_key, client_ok) ==
    /\ user_id # NoUser
    /\ ai_assistant' = IF openai_key # "" THEN AIAssistant(openai_key, client_ok)
                       ELSE ai_assistant
    /\ ui' = Shown("test_ai_connection", NoArgs, None,
                   IF openai_key # "" THEN {"success"} ELSE {"error"})
    /\ UNCHANGED <<store, user_id, search_results, confirm_delete, gen, form, sched>>

\* SELECT email FROM users WHERE id = ?
get_user_email(uid, db_ok) ==
    LET result == {u \in users : u.id = uid}
    IN  IF db_ok /\ result # {} /\ (CHOOSE u \in result : TRUE).email # ""
        THEN (CHOOSE u \in result : TRUE).email ELSE None

---------------------------------------------------------------------------
(* class NotificationManager *)

\* the try block of send_email_notification.  The names MimeMultipart and
\* MimeText are bound by neither import of lines 24-31 under Python 3, where
\* the block raises NameError; the model also lets the mail server accept or
\* refuse the message.
SendTry(email_settings, smtp_outcome) ==
    IF smtp_outcome = "sent" THEN Ret("sent") ELSE Raise(smtp_outcome)

\* send_email_notification without its except clause
send_email_notification_NoExcept(email_settings, smtp_outcome) ==
    LET r == SendTry(email_settings, smtp_outcome)
    IN  IF r.raised THEN [raised |-> TRUE, warned |-> FALSE]
        ELSE [raised |-> FALSE, warned |-> FALSE]

\* except Exception: log and st.warning
send_email_notification(email_settings, smtp_outcome) ==
    LET r == SendTry(email_settings, smtp_outcome)
    IN  [raised |-> FALSE, warned |-> r.raised]

---------------------------------------------------------------------------
(* Applications *)

ApplicationIdsUsed == {a.id : a \in applications}

\* next(p for p in profiles if p['name'] == selected_profile_name), as a list
\* holding the profile found, or nothing
FindProfile(plist, selected_profile_name) ==
    LET Named(p) == p.name = selected_profile_name
    IN  Take(SelectSeq(plist, Named), 1)

\* the cover letter of apply_to_job: "" without an assistant in the session
ApplyCoverLetter(job, profile, resp) ==
    IF ai_assistant # NoAssistant
    THEN LET r == generate_cover_letter(ai_assistant.client, job, profile, resp)
         IN  IF r.raised
             THEN <<"Dear Hiring Manager,", "I am interested in the">> \o job.title
                  \o <<"position at">> \o job.company \o <<".", "Best regards">>
             ELSE r.value
    ELSE NoText

\* ApplicationRow without the status column, which then takes its default
ApplicationRow_DefaultStatus(app_id, job, profile_data, uid, cover_letter) ==
    [id |-> app_id, job_id |-> job.id, profile_id |-> profile_data.id,
     user_id |-> uid, status |-> "pending", cover_letter |-> cover_letter,
     notes |-> NULL, response_received |-> FALSE]

\* the row apply_to_job inserts; the columns it does not name take their defaults
ApplicationRow(app_id, job, profile_data, uid, cover_letter) ==
    [id |-> app_id, job_id |-> job.id, profile_id |-> profile_data.id,
     user_id |-> uid, status |-> "applied", cover_letter |-> cover_letter,
     notes |-> NULL, response_received |-> FALSE]

\* the part of apply_to_job after a successful insert: what became of the
\* notification, "none" | "sent" | "failed" | "raised"
Notify(settings_ok, email_ok, smtp_outcome) ==
    LET user_settings == get_user_settings(user_id, settings_ok)
        email_settings == Get(user_settings, "email_settings", EmptySettings)
    IN  IF Get(email_settings, "enabled", FALSE)
           /\ get_user_email(user_id, email_ok) # None
        THEN LET r == send_email_notification(email_settings, smtp_outcome)
             IN  IF r.raised THEN "raised"
                 ELSE IF r.warned THEN "failed" ELSE "sent"
        ELSE "none"

NoRow == [id |-> None]

\* apply_to_job(job, selected_profile_name, profiles): the row it passes to
\* INSERT, whether the insert went through, and what it showed
apply_to_job(job, selected_profile_name, plist, resp, insert_ok, settings_ok, email_ok, smtp_outcome) ==
    LET found == FindProfile(plist, selected_profile_name)
    IN  IF found = << >>
        THEN [inserted |-> FALSE, row |-> NoRow, notify |-> "none", msgs |-> {"error"},
              steps |-> << >>]
        ELSE LET profile_data == found[1]
                 cover_letter == ApplyCoverLetter(job, JobProfile(profile_data), resp)
                 row == ApplicationRow(uuid4("a", MaxApplications, ApplicationIdsUsed),
                                       job, profile_data, user_id, cover_letter)
                 notify == IF insert_ok THEN Notify(settings_ok, email_ok, smtp_outcome)
                           ELSE "none"
             IN  [inserted |-> insert_ok, row |-> row, notify |-> notify,
                  msgs |-> IF ~insert_ok THEN {"error"}
                           ELSE {"success"}
                                \cup (IF notify = "failed" THEN {"warning"} ELSE {})
                                \cup (IF notify = "raised" THEN {"exception"} ELSE {}),
                  \* the calls it made, in the order of the statements
                  steps |-> (IF ai_assistant # NoAssistant
                             THEN <<"generate_cover_letter">> ELSE << >>)
                            \o <<"execute_query">>
                            \o (IF notify # "none"
                                THEN <<"send_email_notification">> ELSE << >>)]

\* the Apply Now button of show_job_search_page, on a job of the search results
\* with a profile name of the select box
ApplyToJob(job, selected_profile_name, resp, profiles_ok, insert_ok, settings_ok, email_ok, smtp_outcome) ==
    /\ user_id # NoUser
    /\ job \in Range(search_results)
    /\ HasFresh("a", MaxApplications, ApplicationIdsUsed)
    /\ LET plist == get_user_profiles(user_id, profiles_ok)
       IN  /\ \E i \in 1..Len(plist) : plist[i].name = selected_profile_name
           /\ LET r == apply_to_job(job, selected_profile_name, plist, resp,
                                    insert_ok, settings_ok, email_ok, smtp_outcome)
              IN  /\ applications' = IF r.inserted THEN applications \cup {r.row}
                                     ELSE applications
                  /\ ui' = [op |-> "apply_to_job",
                            args |-> [job |-> job, resp |-> resp, row |-> r.row,
                                      selected_profile_name |-> selected_profile_name],
                            ret |-> None, msgs |-> r.msgs, notify |-> r.notify,
                            steps |-> r.steps]
    /\ UNCHANGED <<users, profiles, jobs, settings, session, gen, form, sched>>

\* UpdatedRows that also flips response_received
UpdatedRows_FlipResponse(app_id, status, notes, uid) ==
    {IF a.id = app_id /\ a.user_id = uid
     THEN [a EXCEPT !.status = status, !.notes = notes,
                    !.response_received = ~a.response_received]
     ELSE a : a \in applications}

\* UpdatedRows as a workflow would have it: a rejected or accepted application
\* stays as it is
UpdatedRows_ClosedStay(app_id, status, notes, uid) ==
    {IF a.id = app_id /\ a.user_id = uid /\ a.status \notin {"rejected", "accepted"}
     THEN [a EXCEPT !.status = status, !.notes = notes] ELSE a : a \in applications}

\* UpdatedRows without the test of the owner
UpdatedRows_AnyOwner(app_id, status, notes, uid) ==
    {IF a.id = app_id THEN [a EXCEPT !.status = status, !.notes = notes] ELSE a :
        a \in applications}

\* the applications table after UPDATE applications SET status = ?, notes = ?
\* WHERE id = ? AND user_id = ?
UpdatedRows(app_id, status, notes, uid) ==
    {IF a.id = app_id /\ a.user_id = uid
     THEN [a EXCEPT !.status = status, !.notes = notes] ELSE a : a \in applications}

\* update_application_status(app_id, status, notes), and the Update button of
\* show_applications_page that calls it and shows "Application updated!"
UpdateStatus(app_id, status, notes, db_ok) ==
    /\ user_id # NoUser
    /\ applications' = IF db_ok THEN UpdatedRows(app_id, status, notes, user_id)
                       ELSE applications
    /\ LET args == [app_id |-> app_id, status |-> status, notes |-> notes]
       IN  ui' = [op |-> "update_application_status", args |-> args,
                  ret |-> Bool(db_ok), msgs |-> {"success"},
                  \* the call before this one was the same call, and went through
                  again |-> /\ ui.op = "update_application_status"
                            /\ ui.args = args /\ ui.ret = "True"]
    /\ UNCHANGED <<users, profiles, jobs, settings, session, gen, form, sched>>

---------------------------------------------------------------------------
(* Profiles page, settings page: the other buttons *)

\* delete_profile(profile_id) from the Delete button of a listed profile
DeleteProfile(profile_id, db_ok) ==
    /\ user_id # NoUser
    /\ \E i \in 1..Len(get_user_profiles(user_id, TRUE)) :
          get_user_profiles(user_id, TRUE)[i].id = profile_id
    /\ LET Others(row) == ~(row.id = profile_id /\ row.user_id = user_id)
       IN  profiles' = IF db_ok THEN SelectSeq(profiles, Others) ELSE profiles
    /\ ui' = Shown("delete_profile", [profile_id |-> profile_id], Bool(db_ok), {})
    /\ UNCHANGED <<users, jobs, applications, settings, session, gen, form, sched>>

\* the Save AI Settings button
SaveAISettings(openai_key, read_ok, write_ok) ==
    /\ user_id # NoUser
    /\ settings' = save_user_settings(user_id, [openai_api_key |-> openai_key],
                                      read_ok, write_ok)
    /\ ui' = Shown("save_user_settings", [openai_api_key |-> openai_key],
                   Bool(write_ok), {"success"})
    /\ UNCHANGED <<users, profiles, jobs, applications, session, gen, form, sched>>

\* the rows of get_user_applications from the application with number n down:
\* applications JOIN jobs JOIN profiles WHERE user_id = ?, newest first
RECURSIVE JoinedFrom(_, _)
JoinedFrom(n, uid) ==
    IF n = 0 THEN << >>
    ELSE LET found == {a \in applications :
                          /\ a.id = "a" \o ToString(n) /\ a.user_id = uid
                          /\ \E j \in jobs : j.id = a.job_id
                          /\ \E i \in 1..Len(profiles) : profiles[i].id = a.profile_id}
         IN  (IF found = {} THEN << >>
              ELSE LET a == CHOOSE a \in found : TRUE
                       j == CHOOSE j \in jobs : j.id = a.job_id
                       i == CHOOSE i \in 1..Len(profiles) : profiles[i].id = a.profile_id
                   IN  <<[id |-> a.id, status |-> a.status,
                          cover_letter |-> a.cover_letter, notes |-> a.notes,
                          response_received |-> a.response_received,
                          job_title |-> j.title, company |-> j.company,
                          profile_name |-> profiles[i].name]>>)
             \o JoinedFrom(n - 1, uid)

get_user_applications(uid, db_ok) ==
    IF db_ok THEN JoinedFrom(MaxApplications, uid) ELSE << >>

\* export_data of export_user_data, without its time stamp
export_data(uid, profiles_ok, applications_ok, settings_ok) ==
    LET user_settings == get_user_settings(uid, settings_ok)
    IN  [profiles |-> get_user_profiles(uid, profiles_ok),
         applications |-> get_user_applications(uid, applications_ok),
         settings |-> [k \in DOMAIN user_settings \ {"openai_api_key"} |->
                          user_settings[k]]]

\* the Export Data button: the document handed to st.download_button
ExportData(profiles_ok, applications_ok, settings_ok) ==
    /\ user_id # NoUser
    /\ ui' = Shown("export_user_data", NoArgs,
                   dumps(export_data(user_id, profiles_ok, applications_ok, settings_ok)),
                   {})
    /\ UNCHANGED <<store, session, gen, form, sched>>

\* the Delete Account button: the first click asks for a second one, the second
\* runs delete_user_account, whose four DELETEs may each fail (oks), shows
\* success and empties the session
DeleteAccount(oks) ==
    /\ user_id # NoUser
    /\ LET Others(row) == row.user_id # user_id
       IN  IF confirm_delete
           THEN /\ applications' = IF oks[1] THEN {a \in applications : Others(a)}
                                   ELSE applications
                /\ profiles' = IF oks[2] THEN SelectSeq(profiles, Others) ELSE profiles
                /\ settings' = IF oks[3] THEN {r \in settings : Others(r)} ELSE settings
                /\ users' = IF oks[4] THEN {u \in users : u.id # user_id} ELSE users
                /\ user_id' = NoUser
                /\ ai_assistant' = NoAssistant
                /\ search_results' = << >>
                /\ confirm_delete' = FALSE
                /\ ui' = Shown("delete_user_account", [user_id |-> user_id],
                               None, {"success"})
           ELSE /\ confirm_delete' = TRUE
                /\ ui' = Shown("confirm_delete", NoArgs, None, {"error"})
                /\ UNCHANGED <<users, profiles, applications, settings,
                               user_id, ai_assistant, search_results>>
    /\ UNCHANGED <<jobs, gen, form, sched>>

---------------------------------------------------------------------------
(* The application: what its users may type and what the database, the    *)
(* service and the mail server may answer                                  *)

GoodPassword == <<"s", "e", "c", "r", "e", "t">>

\* alice registers with an email address, bob without
EmailOf(username) == IF username = "alice" THEN "alice@example.com" ELSE ""

ProfileNames == {"Dev"}
SkillTexts == {<<"Python", ",", "SQL">>}
SmtpOutcomes == {"sent", "SMTPException"}
ApplicationIds == {"a" \o ToString(i) : i \in 1..MaxApplications}

\* what the service may answer to the cover letter request of apply_to_job
ApplyResponses == {ServiceError, Content(<<" ", "Dear", "team,", "hire", "me.", " ">>)}

\* what the database and the mail server may answer to one apply_to_job: the
\* insert fails; or it succeeds and the read of the user's email address
\* fails; or both succeed and the mail server accepts or refuses the message
ApplyOutcomes ==
    {[insert_ok |-> FALSE, email_ok |-> TRUE, smtp |-> "sent"],
     [insert_ok |-> TRUE, email_ok |-> FALSE, smtp |-> "sent"]}
    \cup {[insert_ok |-> TRUE, email_ok |-> TRUE, smtp |-> o] : o \in SmtpOutcomes}

\* what the user types into the profile form
SaveSomeProfile(name, skills, db_ok) ==
    SaveProfile(name, skills, <<"5", "years">>, <<"Builder.">>, <<"Engineer">>, db_ok)

\* a search for "Backend" with the slider at its lowest, 5: two jobs
SearchBackend(oks) == SearchJobs(<<"Backend">>, <<"Remote">>, 5, oks)

SaveSomeEmailSettings(enabled, read_ok, write_ok) ==
    SaveEmailSettings("me@example.com", "mailpw", "smtp.gmail.com", enabled, read_ok, write_ok)

---------------------------------------------------------------------------
(* Spec: one user applies.  alice registers, logs in, makes a profile,     *)
(* searches, may test the AI connection and enable the email notification, *)
(* and applies; the insert, the read of her email address, the service and *)
(* the mail server may each fail.                                          *)

Next ==
    \/ Register("alice", EmailOf("alice"), GoodPassword, GoodPassword, TRUE)
    \/ Login("alice", GoodPassword, TRUE)
    \/ \E skills \in SkillTexts : SaveSomeProfile("Dev", skills, TRUE)
    \/ SearchBackend(<<TRUE, TRUE>>)
    \/ \E client_ok \in BOOLEAN : TestAIConnection("sk-A", client_ok)
    \/ \E enabled \in BOOLEAN : SaveSomeEmailSettings(enabled, TRUE, TRUE)
    \/ \E job \in Range(search_results), name \in ProfileNames,
          resp \in ApplyResponses, env \in ApplyOutcomes :
          ApplyToJob(job, name, resp, TRUE, env.insert_ok, TRUE, env.email_ok, env.smtp)

Spec == Init /\ [][Next]_vars

---------------------------------------------------------------------------
(* apply_to_job: the row it writes and what it reports *)

\* the step just taken was a call of apply_to_job
Applied == ui.op = "apply_to_job"

\* C1: one call of apply_to_job either shows success and adds exactly one
\* row, of the calling user and the chosen job, with status 'applied' and a
\* cover letter that is not NULL (it may be empty), or shows an error and
\* leaves the applications table as it was; it never adds two rows or a row
\* with another status.
C1_ApplyOneRowOrNone ==
    [][ui'.op = "apply_to_job" =>
        \/ /\ ui'.msgs \cap {"success", "error"} = {"success"}
           /\ \E r \in applications' \ applications :
                 /\ applications' = applications \cup {r}
                 /\ r.status = "applied"
                 /\ r.cover_letter # NULL
                 /\ r.user_id = user_id
                 /\ r.job_id = ui'.args.job.id
                 /\ \A a \in applications : a.id # r.id
        \/ /\ ui'.msgs \cap {"success", "error"} = {"error"}
           /\ applications' = applications]_vars

\* an application went through without an assistant: the new row is stored
\* with the empty cover letter
C1_Witness ==
    /\ Applied
    /\ "success" \in ui.msgs
    /\ ui.args.row \in applications
    /\ ui.args.row.status = "applied"
    /\ ui.args.row.cover_letter = NoText

\* C2: when the notification fails during apply_to_job, the row written
\* before it is in the table exactly as it was inserted, with status
\* 'applied', and apply_to_job reports success: no error is shown and no
\* exception leaves the call.
C2_NotifyFailureKeepsRow ==
    [][ui'.op = "apply_to_job" /\ ui'.notify \in {"failed", "raised"} =>
        /\ "success" \in ui'.msgs
        /\ ui'.msgs \cap {"error", "exception"} = {}
        /\ ui'.args.row \notin applications
        /\ applications' = applications \cup {ui'.args.row}
        /\ ui'.args.row.status = "applied"]_vars

\* the mail server refused the message of an application that is stored
C2_Witness ==
    /\ Applied
    /\ ui.notify = "failed"
    /\ ui.msgs = {"success", "warning"}
    /\ ui.args.row \in applications

\* the collaborator was unavailable to the call of apply_to_job just made: no
\* assistant in the session, an assistant without a client, or a service
\* that raised
Unavailable ==
    \/ ai_assistant = NoAssistant
    \/ ~ai_assistant.client
    \/ ui.args.resp = ServiceError

\* C8: when the collaborator is unavailable, a successful apply_to_job for a
\* job with title T and company C stores an application with status
\* 'applied' whose cover letter contains T and C.
C8_UnavailableLetterNamesJob ==
    Applied /\ "success" \in ui.msgs /\ Unavailable =>
        /\ ui.args.row \in applications
        /\ ui.args.row.status = "applied"
        /\ Contains(ui.args.row.cover_letter, ui.args.job.title)
        /\ Contains(ui.args.row.cover_letter, ui.args.job.company)

---------------------------------------------------------------------------
(* SpecStatus: two users and their applications.  alice and bob register,  *)
(* log in and out, make profiles, search and apply without an assistant,   *)
(* and call update_application_status with any application id, their own,  *)
(* the other's or one no row holds; the update may fail in the database.   *)

NextStatus ==
    \/ \E un \in UserNames : Register(un, EmailOf(un), GoodPassword, GoodPassword, TRUE)
    \/ \E un \in UserNames : Login(un, GoodPassword, TRUE)
    \/ Logout
    \/ \E skills \in SkillTexts : SaveSomeProfile("Dev", skills, TRUE)
    \/ SearchBackend(<<TRUE, TRUE>>)
    \/ \E job \in Range(search_results), name \in ProfileNames :
          ApplyToJob(job, name, ServiceError, TRUE, TRUE, TRUE, TRUE, "sent")
    \/ \E app_id \in ApplicationIds, status \in {"interview"},
          notes \in {<<"called", "back">>}, db_ok \in BOOLEAN :
          UpdateStatus(app_id, status, notes, db_ok)

SpecStatus == Init /\ [][NextStatus]_vars

\* the step just taken was a call of update_application_status
Updated == ui.op = "update_application_status"

\* C9: update_application_status called by a user with the id of an
\* application of another user returns (a boolean, no exception) and leaves
\* the applications table as it was: that application's status and notes and
\* every other row.
C9_ForeignUpdateChangesNothing ==
    [][(/\ ui'.op = "update_application_status"
        /\ \E a \in applications : a.id = ui'.args.app_id /\ a.user_id # user_id)
       => /\ applications' = applications
          /\ ui'.ret \in {"True", "False"}]_vars

\* a user who has an application of their own asked, and the database
\* accepted, another status for the application of someone else, which still
\* is 'applied' without notes
C9_Witness ==
    /\ Updated
    /\ ui.ret = "True"
    /\ \E a \in applications :
          /\ a.id = ui.args.app_id
          /\ a.user_id # user_id
          /\ a.status = "applied" /\ a.notes = NULL
          /\ ui.args.status # a.status
    /\ \E b \in applications : b.user_id = user_id

\* C10: update_application_status reports a failure to its caller whenever
\* the application id and the calling user resolve to no stored row (an id
\* no row holds, or the id of another user's row): it returns True only when
\* a row of the calling user was updated.
C10_UnresolvedIdReported ==
    (/\ Updated
     /\ ~\E a \in applications : a.id = ui.args.app_id /\ a.user_id = user_id)
    => ui.ret # "True"

---------------------------------------------------------------------------
(* SpecTrack: one user tracks applications.  alice registers, logs in,     *)
(* makes a profile, searches, applies without an assistant, and updates    *)
(* her applications (or an id no row holds) to any status of the select    *)
(* box with or without notes.                                              *)

\* applications of SpecTrack
MaxTracked == 1

\* the options of the Update Status select box
Statuses == {"pending", "applied", "interview", "rejected", "accepted"}

\* what the user leaves in the Notes text area
NoteTexts == {NoText, <<"called">>}

NextTrack ==
    \/ Register("alice", EmailOf("alice"), GoodPassword, GoodPassword, TRUE)
    \/ Login("alice", GoodPassword, TRUE)
    \/ \E skills \in SkillTexts : SaveSomeProfile("Dev", skills, TRUE)
    \/ SearchBackend(<<TRUE, TRUE>>)
    \/ /\ Cardinality(applications) < MaxTracked
       /\ \E job \in Range(search_results), name \in ProfileNames :
             ApplyToJob(job, name, ServiceError, TRUE, TRUE, TRUE, TRUE, "sent")
    \/ \E app_id \in ApplicationIds, status \in Statuses, notes \in NoteTexts :
          UpdateStatus(app_id, status, notes, TRUE)

SpecTrack == Init /\ [][NextTrack]_vars

\* the application the call of update_application_status just made names, when
\* it is one of the caller's
OwnTarget == {a \in applications : a.id = ui.args.app_id /\ a.user_id = user_id}

\* C11: update_application_status is idempotent: a call that repeats, on an
\* application of the caller, the call made just before it (same id, status
\* and notes, both going through) leaves the applications table as the first
\* call left it, with that status and those notes.
C11_UpdateIdempotent ==
    [][(/\ ui'.op = "update_application_status"
        /\ ui'.again /\ ui'.ret = "True"
        /\ \E a \in applications : a.id = ui'.args.app_id /\ a.user_id = user_id)
       => /\ applications' = applications
          /\ \A a \in applications' :
                a.id = ui'.args.app_id =>
                   a.status = ui'.args.status /\ a.notes = ui'.args.notes]_vars

\* the same update of an application of the caller went through twice in a row
C11_Witness ==
    /\ Updated /\ ui.again /\ ui.ret = "True"
    /\ ui.args.status = "interview" /\ ui.args.notes = NoText
    /\ \E a \in OwnTarget : a.status = "interview" /\ a.notes = NoText

\* the notes n0 can be read back from the stored application b
KeepsNotes(b, n0) == b.notes # NULL /\ Contains(b.notes, n0)

\* C17: updates are append-only with respect to notes: after an update that
\* went through on an application of the caller whose notes were the
\* non-empty text n0, the stored application still holds n0.
C17_NotesAppendOnly ==
    [][(ui'.op = "update_application_status" /\ ui'.ret = "True") =>
        \A a \in applications :
            (/\ a.id = ui'.args.app_id /\ a.user_id = user_id
             /\ a.notes # NULL /\ a.notes # NoText)
            => \E b \in applications' : b.id = a.id /\ KeepsNotes(b, a.notes)]_vars

\* C18: every stored application has one of the five statuses, and an update
\* of an application by its owner to any of the five, whatever its status
\* was, goes through and becomes the stored status.
C18_AnyTransitionAccepted ==
    /\ [](\A a \in applications : a.status \in Statuses)
    /\ [][(/\ ui'.op = "update_application_status" /\ ui'.ret = "True"
           /\ ui'.args.status \in Statuses
           /\ \E a \in applications : a.id = ui'.args.app_id /\ a.user_id = user_id)
          => \E b \in applications' :
                /\ b.id = ui'.args.app_id
                /\ b.status = ui'.args.status
                /\ b.notes = ui'.args.notes]_vars

\* an application, written as 'applied', was set back by its owner to 'pending'
C18_Witness ==
    /\ Updated /\ ui.ret = "True"
    /\ ui.args.status = "pending"
    /\ \E a \in OwnTarget : a.status = "pending"

---------------------------------------------------------------------------
(* SpecAccount: two users and the end of an account.  alice and bob        *)
(* register, log in and out, make a profile, search, apply, save email     *)
(* settings and delete their account; each DELETE of delete_user_account   *)
(* may fail in the database.                                               *)

\* what the database answers to the four DELETEs: all go through, or one fails
DeleteOutcomes ==
    {<<TRUE, TRUE, TRUE, TRUE>>}
    \cup {[i \in 1..4 |-> i # k] : k \in 1..4}

NextAccount ==
    \/ \E un \in UserNames : Register(un, EmailOf(un), GoodPassword, GoodPassword, TRUE)
    \/ \E un \in UserNames : Login(un, GoodPassword, TRUE)
    \/ Logout
    \/ \E skills \in SkillTexts : SaveSomeProfile("Dev", skills, TRUE)
    \/ SearchBackend(<<TRUE, TRUE>>)
    \/ /\ Cardinality(applications) < MaxTracked
       /\ \E job \in Range(Take(search_results, 1)) :
             ApplyToJob(job, "Dev", ServiceError, TRUE, TRUE, TRUE, TRUE, "sent")
    \/ SaveSomeEmailSettings(TRUE, TRUE, TRUE)
    \/ \E oks \in DeleteOutcomes : DeleteAccount(oks)

SpecAccount == Init /\ [][NextAccount]_vars

\* C12: after delete_user_account for user u no row of applications, profiles
\* or settings has user id u, the rows of the other users are as they were,
\* and the jobs table is as it was.
C12_DeleteRemovesUserRows ==
    [][ui'.op = "delete_user_account" =>
        LET Mine(row) == row.user_id = user_id
            Others(row) == row.user_id # user_id
        IN  /\ \A a \in applications' : ~Mine(a)
            /\ \A i \in 1..Len(profiles') : ~Mine(profiles'[i])
            /\ \A r \in settings' : ~Mine(r)
            /\ {a \in applications' : Others(a)} = {a \in applications : Others(a)}
            /\ SelectSeq(profiles', Others) = SelectSeq(profiles, Others)
            /\ {r \in settings' : Others(r)} = {r \in settings : Others(r)}
            /\ jobs' = jobs]_vars

---------------------------------------------------------------------------
(* SpecSettings: one user and her settings.  alice registers, logs in,     *)
(* makes a profile, saves her AI key and her email settings, and exports   *)
(* her data; the read inside save_user_settings, its write, and the read   *)
(* of the settings for the export may each fail.                           *)

NextSettings ==
    \/ Register("alice", EmailOf("alice"), GoodPassword, GoodPassword, TRUE)
    \/ Login("alice", GoodPassword, TRUE)
    \/ \E skills \in SkillTexts : SaveSomeProfile("Dev", skills, TRUE)
    \/ \E key \in ApiKeys, read_ok \in BOOLEAN, write_ok \in BOOLEAN :
          SaveAISettings(key, read_ok, write_ok)
    \/ \E enabled \in BOOLEAN, read_ok \in BOOLEAN, write_ok \in BOOLEAN :
          SaveSomeEmailSettings(enabled, read_ok, write_ok)
    \/ \E settings_ok \in BOOLEAN : ExportData(TRUE, TRUE, settings_ok)

SpecSettings == Init /\ [][NextSettings]_vars

\* the settings row of the user of the session, if there is one
MySettings == {r \in settings : r.user_id = user_id}

\* the dict d holds the text secret in one of its text fields
HoldsText(d, secret) ==
    \E f \in DOMAIN d \ {"enabled"} : d[f] = secret

\* the document doc holds the text secret in its settings, at the top or in
\* one of the nested dicts
ExportsText(doc, secret) ==
    \/ /\ "openai_api_key" \in DOMAIN doc.settings
       /\ doc.settings.openai_api_key = secret
    \/ \E k \in DOMAIN doc.settings \ {"openai_api_key"} :
          HoldsText(doc.settings[k], secret)

\* C13: the document of export_user_data holds neither the stored AI
\* credential nor the stored email credential (the password of the email
\* settings), at any nesting level.
C13_ExportHasNoSecret ==
    ui.op = "export_user_data" =>
        \A r \in MySettings :
            /\ r.openai_api_key \notin {NULL, ""}
                  => ~ExportsText(loads(ui.ret), r.openai_api_key)
            /\ "password" \in DOMAIN loads(r.email_settings)
                  => ~ExportsText(loads(ui.ret), loads(r.email_settings).password)

\* the columns of a settings row that hold settings
SettingsFields ==
    {"openai_api_key", "email_settings", "automation_settings", "notification_settings"}

\* how save_user_settings stores the value v of the field f
StoredField(f, v) == IF f = "openai_api_key" THEN v ELSE dumps(v)

\* C14: save_user_settings is a partial merge: after a save that went
\* through, each field the save named holds the new value and each field it
\* did not name holds what the user's row held before, also when the read of
\* the current settings inside save_user_settings failed.
C14_SavePartialMerge ==
    [][(ui'.op = "save_user_settings" /\ ui'.ret = "True") =>
        \E new \in settings' :
            /\ new.user_id = user_id
            /\ \A f \in DOMAIN ui'.args : new[f] = StoredField(f, ui'.args[f])
            /\ \A old \in MySettings :
                  \A f \in SettingsFields \ DOMAIN ui'.args : new[f] = old[f]]_vars

---------------------------------------------------------------------------
(* SpecProfiles: one user, her profiles and what her applications refer    *)
(* to.  alice registers, logs in, submits the profile form with and        *)
(* without a name and with skills, no skills or a lone ",", deletes        *)
(* profiles, searches, and applies; the profile writes and the job         *)
(* inserts of the search may each fail.                                    *)

\* what the user may leave in the Profile Name and Skills fields
FormNames == {"", "Dev"}
FormSkills == {NoText, <<",">>} \cup SkillTexts

NextProfiles ==
    \/ Register("alice", EmailOf("alice"), GoodPassword, GoodPassword, TRUE)
    \/ Login("alice", GoodPassword, TRUE)
    \/ \E name \in FormNames, skills \in FormSkills, db_ok \in BOOLEAN :
          SaveSomeProfile(name, skills, db_ok)
    \/ \E i \in 1..Len(profiles), db_ok \in BOOLEAN : DeleteProfile(profiles[i].id, db_ok)
    \/ \E oks \in [1..2 -> BOOLEAN] : SearchBackend(oks)
    \/ /\ Cardinality(applications) < MaxTracked
       /\ \E job \in Range(search_results), name \in ProfileNames :
             ApplyToJob(job, name, ServiceError, TRUE, TRUE, TRUE, TRUE, "sent")

SpecProfiles == Init /\ [][NextProfiles]_vars

\* the skills of a stored profile, as apply_to_job splits them
SkillsOf(row) == IF row.skills # NoText THEN Split(row.skills) ELSE << >>

\* C15: every profile row of the store has a non-empty name and at least one
\* non-empty skill.
C15_ProfileHasNameAndSkill ==
    \A i \in 1..Len(profiles) :
        /\ profiles[i].name # ""
        /\ \E k \in 1..Len(SkillsOf(profiles[i])) : SkillsOf(profiles[i])[k] # NoText

\* C16: the application row apply_to_job has just written refers to a job
\* that is a row of the jobs table and to a profile that is a row of the
\* profiles table.
C16_ReferencesResolve ==
    (Applied /\ "success" \in ui.msgs /\ ui.args.row \in applications) =>
        /\ \E j \in jobs : j.id = ui.args.row.job_id
        /\ \E i \in 1..Len(profiles) : profiles[i].id = ui.args.row.profile_id

---------------------------------------------------------------------------
(* SpecForm: the FormAutomator alone, before a page of a few elements.     *)
(* The job URL serves a page whose elements have a name and an id;         *)
(* fill_application_form is called, and _fill_field_by_selectors is called *)
(* for one logical field on the page loaded; acquiring the driver and      *)
(* loading the page may fail, and a lookup may time out.                   *)

\* the name and id attributes of the elements of the pages
FormAttrs == {"name", "full_name", "message"}

Elements == [name : FormAttrs, id : FormAttrs, value : {""}]

Pages == UNION {[1..n -> Elements] : n \in 0..MaxElements}

InitForm ==
    /\ users = {}
    /\ profiles = << >>
    /\ jobs = {}
    /\ applications = {}
    /\ settings = {}
    /\ user_id = NoUser
    /\ ai_assistant = NoAssistant
    /\ search_results = << >>
    /\ confirm_delete = FALSE
    /\ ui = [op |-> "init", args |-> << >>, ret |-> None, msgs |-> {}]
    /\ gen = [op |-> "init", done |-> FALSE]
    /\ form \in {[NoForm EXCEPT !.served = p] : p \in Pages}
    /\ sched = NoSchedule

\* one call of fill_application_form
FillForm(cover_letter, setup_ok, get_ok, timeout_field) ==
    /\ LET r == fill_application_form(form, form.served, cover_letter,
                                      setup_ok, get_ok, timeout_field)
       IN  form' = [driver |-> r.held.driver, sessions |-> r.held.sessions,
                    quit |-> r.held.quit, served |-> form.served, page |-> r.page,
                    last |-> [op |-> "fill_application_form", ret |-> r.ret,
                              no_session |-> ~form.driver /\ ~setup_ok,
                              no_page |-> ~get_ok \/ r.held.quit,
                              timed_out |-> timeout_field # 0]]
    /\ UNCHANGED <<store, session, ui, gen, sched>>

\* one call of _fill_field_by_selectors for a logical field, on the page loaded
FillField(field, cover_letter, timeout_at) ==
    /\ form.driver
    /\ LET value == FormValue(field, cover_letter)
           r == _fill_field_by_selectors(common_fields[field], value, form.page,
                                         timeout_at)
       IN  form' = [form EXCEPT
                       !.page = r.page,
                       !.last = [op |-> "_fill_field_by_selectors",
                                 selectors |-> common_fields[field], value |-> value,
                                 before |-> form.page, raised |-> r.raised]]
    /\ UNCHANGED <<store, session, ui, gen, sched>>

NextForm ==
    \/ \E setup_ok \in BOOLEAN, get_ok \in BOOLEAN, timeout_field \in 0..Len(FormFields) :
          FillForm("Dear team", setup_ok, get_ok, timeout_field)
    \/ \E field \in Range(FormFields), timeout_at \in 0..2 :
          FillField(field, "Dear team", timeout_at)

SpecForm == InitForm /\ [][NextForm]_vars

\* the last call was a _fill_field_by_selectors that returned
FieldFilled == form.last.op = "_fill_field_by_selectors" /\ ~form.last.raised

\* the candidate with number c matches an element of the page
CandidateMatches(selectors, page, c) ==
    \E i \in 1..Len(page) : page[i].name = selectors[c] \/ page[i].id = selectors[c]

\* C19: _fill_field_by_selectors fills exactly one element, the one the first
\* candidate in list order that matches selects (the first element with that
\* name, else the first with that id), and no element when no candidate
\* matches.
C19_FirstMatchOnly ==
    FieldFilled =>
        LET sel == form.last.selectors
            before == form.last.before
            matching == {c \in 1..Len(sel) : CandidateMatches(sel, before, c)}
        IN  IF matching = {} THEN form.page = before
            ELSE LET c == CHOOSE c \in matching : \A k \in matching : c <= k
                     named == {i \in 1..Len(before) : before[i].name = sel[c]}
                     ided == {i \in 1..Len(before) : before[i].id = sel[c]}
                     among == IF named # {} THEN named ELSE ided
                     target == CHOOSE i \in among : \A k \in among : i <= k
                 IN  form.page = [before EXCEPT ![target].value = form.last.value]

\* the first candidate, "name", was found by id only, and an element that the
\* second candidate names was left as it was
C19_Witness ==
    /\ FieldFilled
    /\ form.last.selectors = common_fields.name
    /\ \E i, j \in 1..Len(form.page) :
          /\ form.last.before[i].name # "name" /\ form.last.before[i].id = "name"
          /\ form.last.before[j].name = "full_name" /\ form.last.before[j].id # "name"
          /\ form.last.before[j].value = ""
          /\ form.page[i].value = "John Doe"
          /\ form.page[j].value = ""

\* some candidate of the logical field matches an element of the page
Located(field, page) ==
    \E c \in 1..Len(common_fields[field]) :
        CandidateMatches(common_fields[field], page, c)

\* C20: fill_application_form returns failure when the session cannot be
\* acquired, when loading the page fails, when a lookup times out and when a
\* logical field has no candidate that matches; it returns success only
\* when every field was located.
C20_FailureReported ==
    form.last.op = "fill_application_form" =>
        ((\/ form.last.no_session \/ form.last.no_page \/ form.last.timed_out
          \/ \E field \in Range(FormFields) : ~Located(field, form.served))
         => ~form.last.ret)

---------------------------------------------------------------------------
(* The automator's browser session over fill and close calls *)

\* one call of close_driver
CloseDriver ==
    /\ LET r == close_driver(form)
       IN  form' = [form EXCEPT !.driver = r.driver, !.sessions = r.sessions,
                                !.quit = r.quit, !.last = [op |-> "close_driver"]]
    /\ UNCHANGED <<store, session, ui, gen, sched>>

NextSession ==
    \/ \E setup_ok \in BOOLEAN, get_ok \in BOOLEAN, timeout_field \in 0..1 :
          FillForm("Dear team", setup_ok, get_ok, timeout_field)
    \/ CloseDriver

SpecSession == InitForm /\ [][NextSession]_vars

\* C21: the automator starts without a session and holds at most one; when
\* fill_application_form has returned, by success or by failure, the session
\* it used is released; after close_driver the automator refers to no
\* session.
C21_SessionScoped ==
    /\ form.last.op = "init" => ~form.driver /\ form.sessions = 0
    /\ form.sessions <= 1
    /\ form.last.op = "fill_application_form" => form.sessions = 0
    /\ form.last.op = "close_driver" => ~form.driver

\* C21, its last part alone: after close_driver the automator refers to no
\* session
C21_NoStaleSession == form.last.op = "close_driver" => ~form.driver

---------------------------------------------------------------------------
(* Logging in with right and wrong credentials *)

OtherPassword == <<"l", "e", "t", "m", "e", "1">>
Passwords == {GoodPassword, OtherPassword}

\* the usernames typed into the login form: nobody registers as carol
LoginNames == UserNames \cup {"carol"}

NextLogin ==
    \/ \E username \in UserNames, password \in Passwords, db_ok \in BOOLEAN :
          Register(username, EmailOf(username), password, password, db_ok)
    \/ \E username \in LoginNames, password \in Passwords :
          Login(username, password, TRUE)
    \/ Logout

SpecLogin == Init /\ [][NextLogin]_vars

\* the users a login names: those with its username, and those among them
\* whose stored hash is the hash of its password
Named == {u \in users : u.username = ui.args.username}
Matching == {u \in Named : u.password_hash = hash_password(ui.args.password)}

\* C22: a login returns the stored id of the user when the username exists and
\* the password matches; in every other case, unknown username or wrong
\* password alike, it returns None, shows the one message "Invalid
\* credentials" and leaves the session without a user.
C22_UniformRejection ==
    ui.op = "login" =>
        IF Matching # {}
        THEN /\ \E u \in Matching : ui.ret = u.id
             /\ user_id = ui.ret
             /\ ui.msgs = {"success"}
        ELSE /\ ui.ret = None
             /\ user_id = NoUser
             /\ ui.msgs = {"error"}

\* a login with the username of a registered user and a password that is not
\* theirs was rejected
C22_Witness ==
    /\ ui.op = "login"
    /\ Named # {} /\ Matching = {}
    /\ ui.ret = None /\ ui.msgs = {"error"}

---------------------------------------------------------------------------
(* The dashboard: get_user_statistics and get_recent_applications *)

\* get_user_statistics(): four COUNT(*) queries, each of which may fail (oks);
\* response_rate is kept in hundredths of a percent, rounded down
get_user_statistics(uid, oks) ==
    LET own == {a \in applications : a.user_id = uid}
        Mine(row) == row.user_id = uid
        total_applications == IF oks[1] THEN Cardinality(own) ELSE 0
        pending == IF oks[2] THEN Cardinality({a \in own : a.status = "pending"}) ELSE 0
        responses == IF oks[3] THEN Cardinality({a \in own : a.response_received}) ELSE 0
    IN  [total_applications |-> total_applications,
         pending_applications |-> pending,
         response_rate |-> IF total_applications > 0
                           THEN (responses * 10000) \div total_applications ELSE 0,
         active_profiles |-> IF oks[4] THEN Len(SelectSeq(profiles, Mine)) ELSE 0]

\* the rows of get_recent_applications from the application with number n
\* down: applications JOIN jobs WHERE user_id = ?, newest first, LIMIT limit
RECURSIVE RecentFrom(_, _, _)
RecentFrom(n, uid, limit) ==
    IF n = 0 \/ limit = 0 THEN << >>
    ELSE LET found == {a \in applications :
                          /\ a.id = "a" \o ToString(n) /\ a.user_id = uid
                          /\ \E j \in jobs : j.id = a.job_id}
         IN  IF found = {} THEN RecentFrom(n - 1, uid, limit)
             ELSE LET a == CHOOSE a \in found : TRUE
                      j == CHOOSE j \in jobs : j.id = a.job_id
                  IN  <<[job_title |-> j.title, company |-> j.company,
                         status |-> a.status]>>
                      \o RecentFrom(n - 1, uid, limit - 1)

get_recent_applications(uid, limit, db_ok) ==
    IF db_ok THEN RecentFrom(MaxApplications, uid, limit) ELSE << >>

---------------------------------------------------------------------------
(* SpecOwners: two users and their rows.  Each registers, logs in and out, *)
(* makes a profile when they have none and deletes it, searches, applies   *)
(* when they have no application, updates applications by id, saves email  *)
(* settings under an own address, and deletes the account.                 *)

AllOk == <<TRUE, TRUE, TRUE, TRUE>>

\* what the store holds for a user, and for everybody else
OwnProfiles(uid) == {profiles[i] : i \in {k \in 1..Len(profiles) : profiles[k].user_id = uid}}
OwnApplications(uid) == {a \in applications : a.user_id = uid}
OwnSettings(uid) == {r \in settings : r.user_id = uid}
RowsOfOthers(uid) ==
    [users |-> {u \in users : u.id # uid},
     profiles |-> LET Others(row) == row.user_id # uid IN SelectSeq(profiles, Others),
     applications |-> {a \in applications : a.user_id # uid},
     settings |-> {r \in settings : r.user_id # uid}]

NextOwners ==
    \/ \E un \in UserNames : Register(un, EmailOf(un), GoodPassword, GoodPassword, TRUE)
    \/ \E un \in UserNames : Login(un, GoodPassword, TRUE)
    \/ Logout
    \/ /\ OwnProfiles(user_id) = {}
       /\ \E skills \in SkillTexts : SaveSomeProfile("Dev", skills, TRUE)
    \/ \E profile_id \in ProfileIdsUsed : DeleteProfile(profile_id, TRUE)
    \/ SearchBackend(<<TRUE, TRUE>>)
    \/ /\ OwnApplications(user_id) = {}
       /\ \E job \in Range(Take(search_results, 1)) :
             ApplyToJob(job, "Dev", ServiceError, TRUE, TRUE, TRUE, TRUE, "sent")
    \/ \E app_id \in ApplicationIds :
          UpdateStatus(app_id, "interview", NoText, TRUE)
    \/ /\ user_id # NoUser
       /\ SaveEmailSettings(user_id \o "@example.com", "mailpw", "smtp.gmail.com",
                            FALSE, TRUE, TRUE)
    \/ DeleteAccount(AllOk)

SpecOwners == Init /\ [][NextOwners]_vars

\* every profile of the list is a stored profile of uid
ListsOwnProfiles(plist, uid) ==
    \A i \in 1..Len(plist) :
        \E p \in OwnProfiles(uid) : p.id = plist[i].id /\ p.name = plist[i].name

\* every application of the list is a stored application of uid, shown with
\* the name of a profile of uid
ListsOwnApplications(alist, uid) ==
    \A i \in 1..Len(alist) :
        \E a \in OwnApplications(uid) :
            /\ a.id = alist[i].id /\ a.status = alist[i].status
            /\ \E p \in OwnProfiles(uid) :
                  p.id = a.profile_id /\ p.name = alist[i].profile_name

\* the settings are none, or those of the stored row of uid
HoldsOwnSettings(dict, uid) ==
    \/ dict = EmptySettings
    \/ \E r \in OwnSettings(uid) :
          \A k \in DOMAIN dict \ {"openai_api_key"} : dict[k] = loads(r[k])

\* what the reads of the pages return for the user logged in
ReadsOwnRows(uid) ==
    /\ ListsOwnProfiles(get_user_profiles(uid, TRUE), uid)
    /\ ListsOwnApplications(get_user_applications(uid, TRUE), uid)
    /\ LET recent == get_recent_applications(uid, 5, TRUE)
       IN  /\ Len(recent) <= Cardinality(OwnApplications(uid))
           /\ \A i \in 1..Len(recent) :
                 \E a \in OwnApplications(uid) : a.status = recent[i].status
    /\ HoldsOwnSettings(get_user_settings(uid, TRUE), uid)
    /\ LET stats == get_user_statistics(uid, AllOk)
       IN  /\ stats.total_applications = Cardinality(OwnApplications(uid))
           /\ stats.active_profiles = Cardinality(OwnProfiles(uid))
    /\ LET data == export_data(uid, TRUE, TRUE, TRUE)
       IN  /\ ListsOwnProfiles(data.profiles, uid)
           /\ ListsOwnApplications(data.applications, uid)
           /\ HoldsOwnSettings(data.settings, uid)

WriteOps ==
    {"delete_profile", "update_application_status", "save_user_settings",
     "delete_user_account"}

\* C23: what get_user_profiles, get_user_applications, get_recent_applications,
\* get_user_settings, get_user_statistics and export_user_data return for the
\* user logged in are rows of that user only, and delete_profile,
\* update_application_status, save_user_settings and delete_user_account
\* leave every row of every other user as it was.
C23_OwnRowsOnly ==
    /\ [](user_id # NoUser => ReadsOwnRows(user_id))
    /\ [][ui'.op \in WriteOps => RowsOfOthers(user_id)' = RowsOfOthers(user_id)]_vars

\* bob, who has a profile, an application and settings of his own, updated an
\* application while alice's profile, application and settings were stored
C23_Witness ==
    /\ user_id # NoUser
    /\ ui.op = "update_application_status"
    /\ get_user_profiles(user_id, TRUE) # << >>
    /\ get_user_applications(user_id, TRUE) # << >>
    /\ OwnSettings(user_id) # {}
    /\ RowsOfOthers(user_id).profiles # << >>
    /\ RowsOfOthers(user_id).applications # {}
    /\ RowsOfOthers(user_id).settings # {}

---------------------------------------------------------------------------
(* Failed writes and what the pages show for them *)

\* the handlers that leave in ui.ret what their execute_query returned
ReturnsWriteResult ==
    {"register", "show_profile_form", "update_application_status",
     "save_user_settings"}

\* C24: a write that fails leaves the store as it was, and the page that made
\* it shows no success message for it.
C24_FailedWriteReported ==
    /\ [][(ui'.op \in ReturnsWriteResult /\ ui'.ret = "False") => store' = store]_vars
    /\ []((ui.op \in ReturnsWriteResult /\ ui.ret = "False") => "success" \notin ui.msgs)

---------------------------------------------------------------------------
(* run_automation_scheduler and the entry point.                           *)
(*                                                                         *)
(* sched.threads holds one record per scheduler thread: where it is (pc)   *)
(* and the jobs its run_pending still has to run (todo).  sched.jobs holds *)
(* one flag per job registered on the schedule of the process: whether the *)
(* job is due (now >= next_run).  run_pending of the schedule module takes *)
(* the due jobs in one pass and then runs them one after the other; a job  *)
(* gets its next_run only after its function returned.                     *)

\* executions of the entry point in the process
MaxRuns == 2

Threads == 1..Len(sched.threads)

At(t, pc) == sched.threads[t].pc = pc

Goto(t, pc, todo) == [sched.threads EXCEPT ![t] = [pc |-> pc, todo |-> todo]]

\* the indexes from n up to Len(due) of the jobs that are due, in order
RECURSIVE RunnableFrom(_, _)
RunnableFrom(n, due) ==
    IF n > Len(due) THEN << >>
    ELSE (IF due[n] THEN <<n>> ELSE << >>) \o RunnableFrom(n + 1, due)

\* __main__: threading.Thread(target=run_automation_scheduler).start()
Main ==
    /\ Len(sched.threads) < MaxRuns
    /\ sched' = [sched EXCEPT !.threads = Append(@, [pc |-> "start", todo |-> << >>])]
    /\ UNCHANGED <<store, session, ui, gen, form>>

\* schedule.every().hour.do(check_and_apply): one more job, due in an hour
EveryHourDo(t) ==
    /\ At(t, "start")
    /\ sched' = [threads |-> Goto(t, "run_pending", << >>),
                 jobs |-> Append(sched.jobs, FALSE)]
    /\ UNCHANGED <<store, session, ui, gen, form>>

\* schedule.run_pending(): the jobs that are due, all jobs of the schedule
\* considered
RunPending(t) ==
    /\ At(t, "run_pending")
    /\ LET runnable == RunnableFrom(1, sched.jobs)
       IN  sched' = [sched EXCEPT !.threads =
                        IF runnable = << >> THEN Goto(t, "sleep", << >>)
                        ELSE Goto(t, "_run_job", runnable)]
    /\ UNCHANGED <<store, session, ui, gen, form>>

\* _run_job(job): job.run() calls check_and_apply
CallCheckAndApply(t) ==
    /\ At(t, "_run_job")
    /\ sched' = [sched EXCEPT !.threads = Goto(t, "check_and_apply", sched.threads[t].todo)]
    /\ UNCHANGED <<store, session, ui, gen, form>>

\* check_and_apply returns; job.run() sets last_run and the next_run, an hour
\* ahead, and run_pending goes on with the next job or returns
ReturnCheckAndApply(t) ==
    /\ At(t, "check_and_apply")
    /\ LET todo == sched.threads[t].todo
       IN  sched' = [threads |-> IF Tail(todo) = << >> THEN Goto(t, "sleep", << >>)
                                 ELSE Goto(t, "_run_job", Tail(todo)),
                     jobs |-> [sched.jobs EXCEPT ![Head(todo)] = FALSE]]
    /\ UNCHANGED <<store, session, ui, gen, form>>

\* time.sleep(60) returns
Wake(t) ==
    /\ At(t, "sleep")
    /\ sched' = [sched EXCEPT !.threads = Goto(t, "run_pending", << >>)]
    /\ UNCHANGED <<store, session, ui, gen, form>>

\* the clock reaches the next_run of a job
HourPasses(j) ==
    /\ ~sched.jobs[j]
    /\ sched' = [sched EXCEPT !.jobs[j] = TRUE]
    /\ UNCHANGED <<store, session, ui, gen, form>>

NextScheduler ==
    \/ Main
    \/ \E t \in Threads : EveryHourDo(t)
    \/ \E t \in Threads : RunPending(t)
    \/ \E t \in Threads : CallCheckAndApply(t)
    \/ \E t \in Threads : ReturnCheckAndApply(t)
    \/ \E t \in Threads : Wake(t)
    \/ \E j \in 1..Len(sched.jobs) : HourPasses(j)

SpecScheduler == Init /\ [][NextScheduler]_vars

\* the threads inside check_and_apply
InFlight == {t \in Threads : At(t, "check_and_apply")}

\* C25: at every moment at most one check_and_apply is in flight in the
\* process, however many times the entry point was executed.
C25_OneSweepAtATime == Cardinality(InFlight) <= 1

---------------------------------------------------------------------------
(* The steps of one apply_to_job *)

Pipeline ==
    <<"generate_cover_letter", "fill_application_form", "execute_query",
      "send_email_notification">>

Stage(step) == CHOOSE k \in 1..Len(Pipeline) : Pipeline[k] = step

\* the email notification is enabled in the settings of the user
NotificationEnabled ==
    Get(Get(get_user_settings(user_id, TRUE), "email_settings", EmptySettings),
        "enabled", FALSE)

\* C26: an apply_to_job that found its profile makes its calls in the order
\* content generation, form submission attempt, persistence write,
\* notification: the form submission is attempted and the write is made
\* whatever became of the steps before, and the notification is attempted
\* only after a write that succeeded and with the notification enabled.
C26_PipelineOrder ==
    (ui.op = "apply_to_job" /\ ui.args.row # NoRow) =>
        /\ \A i, j \in 1..Len(ui.steps) :
              i < j => Stage(ui.steps[i]) < Stage(ui.steps[j])
        /\ "execute_query" \in Range(ui.steps)
        /\ "send_email_notification" \in Range(ui.steps) =>
              (ui.args.row \in applications /\ NotificationEnabled)
        /\ "fill_application_form" \in Range(ui.steps)

\* C26 without the form submission attempt
C26_OrderOfTheStepsMade ==
    (ui.op = "apply_to_job" /\ ui.args.row # NoRow) =>
        /\ \A i, j \in 1..Len(ui.steps) :
              i < j => Stage(ui.steps[i]) < Stage(ui.steps[j])
        /\ "execute_query" \in Range(ui.steps)
        /\ "send_email_notification" \in Range(ui.steps) =>
              (ui.args.row \in applications /\ NotificationEnabled)

---------------------------------------------------------------------------
(* The dashboard count and the applications page *)

\* C27: the total_applications of get_user_statistics is the number of
\* applications get_user_applications lists for the user logged in.
C27_CountedAreListed ==
    user_id # NoUser =>
        get_user_statistics(user_id, AllOk).total_applications
            = Len(get_user_applications(user_id, TRUE))

---------------------------------------------------------------------------
(* SpecHandover: two users, one after the other in one browser session.    *)
(* Each registers, logs in and out, tests the AI connection with a key of  *)
(* their own, makes a profile, searches and applies.                       *)

\* the key a user types into the OpenAI API Key field
KeyOf(uid) == "sk-" \o uid

NextHandover ==
    \/ \E un \in UserNames : Register(un, EmailOf(un), GoodPassword, GoodPassword, TRUE)
    \/ \E un \in UserNames : Login(un, GoodPassword, TRUE)
    \/ Logout
    \/ /\ user_id # NoUser
       /\ TestAIConnection(KeyOf(user_id), TRUE)
    \/ /\ OwnProfiles(user_id) = {}
       /\ \E skills \in SkillTexts : SaveSomeProfile("Dev", skills, TRUE)
    \/ SearchBackend(<<TRUE, TRUE>>)
    \/ /\ OwnApplications(user_id) = {}
       /\ \E job \in Range(Take(search_results, 1)), resp \in ApplyResponses :
             ApplyToJob(job, "Dev", resp, TRUE, TRUE, TRUE, TRUE, "sent")

SpecHandover == Init /\ [][NextHandover]_vars

\* C28: the ai_assistant of the session is absent or holds the key of the
\* user logged in, and an apply_to_job that generates a cover letter does so
\* with the assistant of the user who applies.
C28_AssistantOfCurrentUser ==
    /\ (user_id # NoUser /\ ai_assistant # NoAssistant)
          => ai_assistant.api_key = KeyOf(user_id)
    /\ (ui.op = "apply_to_job" /\ "generate_cover_letter" \in Range(ui.steps))
          => ai_assistant.api_key = KeyOf(ui.args.row.user_id)

\* C28, its second part alone: the cover letter of an application is
\* generated with the assistant of the user who applies
C28_ApplyUsesOwnAssistant ==
    (ui.op = "apply_to_job" /\ "generate_cover_letter" \in Range(ui.steps))
        => ai_assistant.api_key = KeyOf(ui.args.row.user_id)

===========================================================================
